---- MODULE Spec2Model ----
(***************************************************************************)
(* unified-llm-client: the capability gate (providers/base.py), the        *)
(* dispatcher (client.py) and the three vendor adapters                    *)
(* (providers/openai.py, anthropic.py, together.py) with their SSE         *)
(* decoding, as a state machine.                                           *)
(*                                                                         *)
(* Tool names are naturals so that sorted() has an order to follow:        *)
(* Star stands for "*" (which sorts before every letter), 1, 2, ... for    *)
(* ordinary names in their lexicographic order.                            *)
(***************************************************************************)
EXTENDS Integers, Sequences, FiniteSets, TLC

\* ------------------------------------------------------------------ bounds
MaxToolName == 2
MaxTools == 2
MaxMsgs == 1
MaxLines == 3
MaxWireLines == 1
MaxCallTools == 1

Star == 0

ToolNames == 0..MaxToolName

\* ---------------------------------------------------------------- helpers
Range(s) == {s[i] : i \in DOMAIN s}

SeqsUpTo(S, n) == UNION {[1..k -> S] : k \in 0..n}

Min(S) == CHOOSE x \in S : \A y \in S : x <= y

RECURSIVE SortSet(_)
SortSet(S) == IF S = {} THEN <<>> ELSE <<Min(S)>> \o SortSet(S \ {Min(S)})

\* ------------------------------------------------------------- data model
ToolModes == {"off", "auto", "required"}
ThinkingModes == {"off", "on"}
Roles == {"system", "user", "assistant"}
ProviderNames == {"openai", "anthropic", "together", "dummy"}
Models == {"toy"}

Message == [role : Roles, content : {"hi"}]

ToolDef == [name : ToolNames]

Requests(nTools) ==
    [provider : ProviderNames, model : Models,
     messages : SeqsUpTo(Message, MaxMsgs),
     tools : SeqsUpTo(ToolDef, nTools),
     tool_mode : ToolModes, thinking : ThinkingModes]

ChatRequest == Requests(MaxTools)

\* tools is the tuple's set of entries: the gate only tests the tuple for
\* emptiness and turns it into a set.
ModelCapabilities == [tools : SUBSET ToolNames, streaming : BOOLEAN, thinking : BOOLEAN]

\* ----------------------------------------------------------------- errors
\* One record shape for "no exception" and for every exception kind.
NoError == [kind |-> "none", provider |-> "", feature |-> "", tools |-> <<>>, status |-> 0]

UnsupportedProviderError(provider) ==
    [NoError EXCEPT !.kind = "UnsupportedProvider", !.provider = provider]

UnsupportedFeatureError(feature) ==
    [NoError EXCEPT !.kind = "UnsupportedFeature", !.feature = feature]

ProviderError(provider, status_code) ==
    [NoError EXCEPT !.kind = "ProviderError", !.provider = provider, !.status = status_code]

\* A Python exception of another class escaping the package's handlers.
PythonError(kind) == [NoError EXCEPT !.kind = kind]

\* joined = ", ".join(sorted(set(tools)))
ToolNotAvailableError(provider, tools) ==
    [NoError EXCEPT !.kind = "ToolNotAvailable", !.provider = provider,
                    !.tools = SortSet(Range(tools))]

\* --------------------------------------------------------- capability gate
ToolNamesOf(tools) == [i \in DOMAIN tools |-> tools[i].name]

MissingTools(req, allowed) ==
    LET names == ToolNamesOf(req.tools)
        NotAllowed(n) == n \notin allowed
    IN SelectSeq(names, NotAllowed)

ToolRule(req, caps) ==
    IF req.tool_mode # "off" /\ req.tools # <<>>
    THEN IF caps.tools = {}
         THEN ToolNotAvailableError(req.provider, ToolNamesOf(req.tools))
         ELSE IF Star \notin caps.tools /\ MissingTools(req, caps.tools) # <<>>
              THEN ToolNotAvailableError(req.provider, MissingTools(req, caps.tools))
              ELSE NoError
    ELSE NoError

ThinkingRule(req, caps) ==
    IF req.thinking # "off" /\ ~caps.thinking
    THEN UnsupportedFeatureError("thinking")
    ELSE NoError

ensure_capabilities_thinking_first(req, caps) ==
    IF ThinkingRule(req, caps) # NoError THEN ThinkingRule(req, caps) ELSE ToolRule(req, caps)

ensure_capabilities_no_wildcard(req, caps) ==
    IF req.tool_mode # "off" /\ req.tools # <<>>
          /\ MissingTools(req, caps.tools) # <<>>
    THEN ToolNotAvailableError(req.provider, MissingTools(req, caps.tools))
    ELSE ThinkingRule(req, caps)

ensure_capabilities(req, caps) ==
    IF ToolRule(req, caps) # NoError THEN ToolRule(req, caps) ELSE ThinkingRule(req, caps)

\* ------------------------------------------------------------- vendor wire
\* A JSON value decoded from a streaming payload, described by what
\* _extract_delta_text looks at: the top-level value, its "choices" entry,
\* choices[0], its "delta" and "message" entries and their "content".
Frag == [t : {"absent", "str", "int"}, s : {"", "He", "llo"}]

Absent == [t |-> "absent", s |-> ""]
Str(s) == [t |-> "str", s |-> s]
IntFrag == [t |-> "int", s |-> ""]

NoChunk ==
    [top |-> "scalar", choices |-> "absent", c0 |-> "scalar",
     delta |-> "absent", dcontent |-> Absent, message |-> "absent", mcontent |-> Absent]

\* {"choices":[{"delta":{"content": d}}]}
DeltaChunk(d) ==
    [NoChunk EXCEPT !.top = "object", !.choices = "list", !.c0 = "object",
                    !.delta = "object", !.dcontent = d]

\* {"choices":[{"message":{"content": m}}]}
MessageChunk(m) ==
    [NoChunk EXCEPT !.top = "object", !.choices = "list", !.c0 = "object",
                    !.message = "object", !.mcontent = m]

Chunks ==
    { DeltaChunk(Str("He")), DeltaChunk(Str("llo")), DeltaChunk(Str("")),
      DeltaChunk(IntFrag), DeltaChunk(Absent),
      MessageChunk(Str("He")),
      [NoChunk EXCEPT !.top = "object"],                                  \* {}
      [NoChunk EXCEPT !.top = "object", !.choices = "empty"],             \* {"choices":[]}
      NoChunk,                                                            \* 42
      [NoChunk EXCEPT !.top = "object", !.choices = "object"],            \* {"choices":{"a":1}}
      [NoChunk EXCEPT !.top = "object", !.choices = "list"],              \* {"choices":[7]}
      [DeltaChunk(Absent) EXCEPT !.delta = "null"] }                      \* {"choices":[{"delta":null}]}

\* A line is a sequence of tokens; t is the token's text, and a "json" token
\* is the text of one well-formed JSON value (chunk says which).
Tok(t) == [t |-> t, chunk |-> NoChunk]
Json(c) == [t |-> "json", chunk |-> c]

DataLine(c) == <<Tok("data:"), Tok(" "), Json(c)>>

Lines ==
    { <<>>,                                             \* blank line
      <<Tok(" ")>>,                                     \* whitespace only
      <<Tok("event:"), Tok(" "), Tok("message")>>,      \* event: message
      <<Tok(":"), Tok("keepalive")>>,                   \* SSE comment
      <<Tok("data:"), Tok(" "), Tok("[DONE]")>>,        \* data: [DONE]
      <<Tok(" "), Tok("data:"), Tok("[DONE]"), Tok(" ")>>,
      <<Tok("data:"), Tok(" "), Tok("{not json}")>>,    \* data: {not json}
      <<Tok("data:")>> }                                \* data:
    \cup {DataLine(c) : c \in Chunks}

\* str.strip(): leading and trailing whitespace removed.
RECURSIVE LStrip(_)
LStrip(s) == IF s # <<>> /\ Head(s).t = " " THEN LStrip(Tail(s)) ELSE s

RECURSIVE RStrip(_)
RStrip(s) ==
    IF s # <<>> /\ s[Len(s)].t = " " THEN RStrip(SubSeq(s, 1, Len(s) - 1)) ELSE s

Strip(s) == RStrip(LStrip(s))

StartsWith(s, t) == s # <<>> /\ Head(s).t = t

\* json.loads: one JSON token parses to its value, everything else (the
\* empty string included) raises JSONDecodeError.
JsonLoads(s) ==
    IF Len(s) = 1 /\ s[1].t = "json"
    THEN [ok |-> TRUE, value |-> s[1].chunk]
    ELSE [ok |-> FALSE, value |-> NoChunk]

Extracted(err, text) == [err |-> err, text |-> text]

StrOrEmpty(f) == IF f.t = "str" THEN f.s ELSE ""

\* OpenAIProvider._extract_delta_text
OpenAIExtractDeltaText(event) ==
    IF event.top # "object" THEN Extracted("AttributeError", "")
    ELSE IF event.choices \in {"absent", "empty"} THEN Extracted("", "")
    ELSE IF event.choices = "object" THEN Extracted("KeyError", "")
    ELSE IF event.c0 # "object" THEN Extracted("AttributeError", "")
    ELSE IF event.delta = "null" THEN Extracted("AttributeError", "")
    ELSE IF event.delta = "absent" THEN Extracted("", "")
    ELSE Extracted("", StrOrEmpty(event.dcontent))

\* TogetherProvider._extract_delta_text
TogetherExtractDeltaText(event) ==
    IF event.top # "object" THEN Extracted("AttributeError", "")
    ELSE IF event.choices \in {"absent", "empty"} THEN Extracted("", "")
    ELSE IF event.choices = "object" THEN Extracted("KeyError", "")
    ELSE IF event.c0 # "object" THEN Extracted("AttributeError", "")
    ELSE IF event.delta = "null" THEN Extracted("AttributeError", "")
    ELSE IF event.delta = "object" /\ event.dcontent.t = "str"
         THEN Extracted("", event.dcontent.s)
    ELSE IF event.message = "null" THEN Extracted("AttributeError", "")
    ELSE IF event.message = "absent" THEN Extracted("", "")
    ELSE Extracted("", StrOrEmpty(event.mcontent))

ExtractDeltaText(kind, event) ==
    IF kind = "together" THEN TogetherExtractDeltaText(event)
    ELSE OpenAIExtractDeltaText(event)

\* ----------------------------------------------------------- stream events
StreamEvent == [type : {"text_delta", "done"}, text : {"", "He", "llo", "chunk"}]

TextDelta(text) == [type |-> "text_delta", text |-> text]
Done == [type |-> "done", text |-> ""]

\* One turn of the `async for line in response.aiter_lines()` loop body:
\* what the generator does with one line.
\*   skip  - continue / fall off the loop body without yielding
\*   delta - yield a text_delta event
\*   done  - yield the done event and return
\*   raise - an exception leaves the generator
LineStep(act, text, err) == [act |-> act, text |-> text, err |-> err]

DecodeLine(kind, line) ==
    IF line = <<>> THEN LineStep("skip", "", "")
    ELSE LET l == Strip(line)
             data_str == Strip(Tail(l))
             parsed == JsonLoads(data_str)
             x == ExtractDeltaText(kind, parsed.value)
         IN IF kind = "together" /\ StartsWith(l, "event:") THEN LineStep("skip", "", "")
            ELSE IF ~StartsWith(l, "data:") THEN LineStep("skip", "", "")
            ELSE IF data_str = <<Tok("[DONE]")>> THEN LineStep("done", "", "")
            ELSE IF ~parsed.ok THEN LineStep("skip", "", "")
            ELSE IF x.err # "" THEN LineStep("raise", "", x.err)
            ELSE IF x.text # "" THEN LineStep("delta", x.text, "")
            ELSE LineStep("skip", "", "")

\* ---------------------------------------------------------------- adapters
\* A provider instance: its class (kind), the class attribute `name`, and
\* `_supported_tools` as the set of the tuple's entries.
None == [kind |-> "none", name |-> "", supported_tools |-> {}]

\* tuple(supported_tools or ("*",)): None and an empty list both give ("*",)
OpenAIProvider(supported_tools) ==
    [kind |-> "openai", name |-> "openai",
     supported_tools |-> IF supported_tools = {} THEN {Star} ELSE supported_tools]

AnthropicProvider(supported_tools) ==
    [kind |-> "anthropic", name |-> "anthropic",
     supported_tools |-> IF supported_tools = {} THEN {Star} ELSE supported_tools]

\* tuple(supported_tools or ())
TogetherProvider(supported_tools) ==
    [kind |-> "together", name |-> "together", supported_tools |-> supported_tools]

\* tests/test_sanity.py: a provider that never touches the network
DummyProvider == [kind |-> "dummy", name |-> "dummy", supported_tools |-> {Star}]

capabilities(p, model) ==
    CASE p.kind = "openai" -> [tools |-> p.supported_tools, streaming |-> TRUE, thinking |-> TRUE]
      [] p.kind = "anthropic" -> [tools |-> p.supported_tools, streaming |-> FALSE, thinking |-> TRUE]
      [] p.kind = "together" -> [tools |-> p.supported_tools, streaming |-> TRUE, thinking |-> FALSE]
      [] OTHER -> [tools |-> {Star}, streaming |-> TRUE, thinking |-> TRUE]

\* ---- request bodies
NoChoice == [type |-> "none", name |-> Star]

NoPayload ==
    [error |-> NoError, model |-> "", system |-> FALSE, messages |-> <<>>,
     tools |-> <<>>, tool_choice |-> NoChoice, stream |-> FALSE]

RolesOf(messages) == [i \in DOMAIN messages |-> messages[i].role]

\* OpenAIProvider._serialize_tools: "required" names the first tool
OpenAISerializeTools(payload, tools, tool_mode) ==
    [payload EXCEPT !.tools = ToolNamesOf(tools),
                    !.tool_choice =
                        IF tool_mode = "auto" THEN [type |-> "auto", name |-> Star]
                        ELSE IF tool_mode = "required"
                             THEN [type |-> "function", name |-> tools[1].name]
                             ELSE NoChoice]

\* AnthropicProvider._serialize_tools
AnthropicSerializeTools(payload, tools, tool_mode) ==
    [payload EXCEPT !.tools = ToolNamesOf(tools),
                    !.tool_choice =
                        IF tool_mode = "auto" THEN [type |-> "auto", name |-> Star]
                        ELSE IF tool_mode = "required" THEN [type |-> "any", name |-> Star]
                             ELSE NoChoice]

OpenAIBuildPayload(req) ==
    LET payload == [NoPayload EXCEPT !.model = req.model, !.messages = RolesOf(req.messages)]
    IN IF req.tool_mode # "off" /\ req.tools # <<>>
       THEN OpenAISerializeTools(payload, req.tools, req.tool_mode)
       ELSE payload

\* TogetherProvider._build_payload: model and messages only
TogetherBuildPayload(req) ==
    [NoPayload EXCEPT !.model = req.model, !.messages = RolesOf(req.messages)]

IsSystem(m) == m.role = "system"
NotSystem(m) == m.role # "system"

SplitSystemKeepAll(messages) ==
    [system |-> SelectSeq(messages, IsSystem) # <<>>, rest |-> messages]

\* AnthropicProvider._split_system (content is never empty in Message, so
\* system_text is non-empty exactly when some message has the system role)
SplitSystem(messages) ==
    [system |-> SelectSeq(messages, IsSystem) # <<>>, rest |-> SelectSeq(messages, NotSystem)]

\* AnthropicProvider._serialize_message raises for a role other than
\* user/assistant; the comprehension stops at the first such message.
AnthropicSerializeError(msgs) ==
    IF \E i \in DOMAIN msgs : msgs[i].role \notin {"user", "assistant"}
    THEN ProviderError("anthropic", 0)
    ELSE NoError

AnthropicBuildPayload(req) ==
    LET split == SplitSystem(req.messages)
        payload == [NoPayload EXCEPT !.error = AnthropicSerializeError(split.rest),
                                     !.model = req.model, !.system = split.system,
                                     !.messages = RolesOf(split.rest)]
    IN IF payload.error # NoError THEN [NoPayload EXCEPT !.error = payload.error]
       ELSE IF req.tool_mode # "off" /\ req.tools # <<>>
       THEN AnthropicSerializeTools(payload, req.tools, req.tool_mode)
       ELSE payload

BuildPayload(p, req) ==
    CASE p.kind = "openai" -> OpenAIBuildPayload(req)
      [] p.kind = "anthropic" -> AnthropicBuildPayload(req)
      [] p.kind = "together" -> TogetherBuildPayload(req)
      [] OTHER -> NoPayload

\* ---- replies to the non-streaming call
\* transport = FALSE: the HTTP client raised (timeout, connection reset)
\* before a response arrived.  json says what response.json() meets; parts
\* are the texts at the vendor's location (choices[i].message.content, or the
\* content blocks of type text).
Texts == {"ok"}

Reply ==
    [transport : BOOLEAN, status_code : {200, 500},
     json : {"object", "array", "invalid"}, parts : SeqsUpTo(Texts, 1)]

Replies ==
    {r \in Reply :
        /\ (~r.transport => r.status_code = 200 /\ r.json = "invalid")
        /\ (r.status_code = 500 => r.json = "invalid")
        /\ (r.json # "object" => r.parts = <<>>)}

NoReply == [transport |-> FALSE, status_code |-> 200, json |-> "invalid", parts |-> <<>>]

NoResponse == [provider |-> "", model |-> "", text |-> ""]

ChatResponse(provider, model, text) == [provider |-> provider, model |-> model, text |-> text]

\* what a chat call leaves behind: the exception (or NoError), the response
\* returned, the number of outbound HTTP calls issued and the body sent
ChatResult(error, response, http, payload) ==
    [error |-> error, response |-> response, http |-> http, payload |-> payload]

\* _json_or_error: ProviderError for status >= 400, else response.json(), whose
\* json.JSONDecodeError is not caught
JsonOrError(name, reply) ==
    IF reply.status_code >= 400 THEN ProviderError(name, reply.status_code)
    ELSE IF reply.json = "invalid" THEN PythonError("JSONDecodeError")
    ELSE NoError

\* the text both chat() bodies and _extract_text take out of the decoded
\* body; a body that is not a JSON object has no .get
ExtractText(reply) ==
    IF reply.json # "object" THEN Extracted("AttributeError", "")
    ELSE IF reply.parts = <<>> THEN Extracted("", "")
    ELSE Extracted("", reply.parts[1])

\* payload built, one POST, then decoding
PostAndDecode(p, req, payload, reply) ==
    IF ~reply.transport
    THEN ChatResult(PythonError("TransportError"), NoResponse, 1, payload)
    ELSE IF JsonOrError(p.kind, reply) # NoError
    THEN ChatResult(JsonOrError(p.kind, reply), NoResponse, 1, payload)
    ELSE IF ExtractText(reply).err # ""
    THEN ChatResult(PythonError(ExtractText(reply).err), NoResponse, 1, payload)
    ELSE ChatResult(NoError, ChatResponse(p.name, req.model, ExtractText(reply).text), 1, payload)

\* AnthropicProvider.chat: the gate again, then the payload, then the call
AnthropicChat(p, req, reply) ==
    LET gate == ensure_capabilities(req, capabilities(p, req.model))
        payload == BuildPayload(p, req)
    IN IF gate # NoError THEN ChatResult(gate, NoResponse, 0, NoPayload)
       ELSE IF payload.error # NoError THEN ChatResult(payload.error, NoResponse, 0, NoPayload)
       ELSE PostAndDecode(p, req, payload, reply)

ProviderChat(p, req, reply) ==
    CASE p.kind = "anthropic" -> AnthropicChat(p, req, reply)
      [] p.kind \in {"openai", "together"} -> PostAndDecode(p, req, BuildPayload(p, req), reply)
      [] OTHER -> ChatResult(NoError, ChatResponse(p.name, req.model, "ok"), 0, NoPayload)

\* ---- stream(): what the call itself does, before anything is iterated
\* AnthropicProvider.stream: the gate, then UnsupportedFeatureError
AnthropicStream(p, req) ==
    IF ensure_capabilities(req, capabilities(p, req.model)) # NoError
    THEN ensure_capabilities(req, capabilities(p, req.model))
    ELSE UnsupportedFeatureError("streaming")

\* the exception stream() raises; NoError when it returns a generator
ProviderStream(p, req) ==
    IF p.kind = "anthropic" THEN AnthropicStream(p, req) ELSE NoError

\* ---- replies to the streaming call
NoWire == [transport |-> FALSE, status_code |-> 200, lines |-> <<>>]

LineFeeds(L, n) ==
    {[transport |-> TRUE, status_code |-> 200, lines |-> l] : l \in SeqsUpTo(L, n)}

StreamReplies(L, n) ==
    LineFeeds(L, n) \cup {NoWire, [transport |-> TRUE, status_code |-> 500, lines |-> <<>>]}

\* the lines the dispatcher's streams are fed with
FewLines ==
    { DataLine(DeltaChunk(Str("He"))),
      <<Tok("data:"), Tok(" "), Tok("[DONE]")>>,
      <<Tok("data:"), Tok(" "), Tok("{not json}")>>,
      DataLine(NoChunk) }

\* The generator body from the line loop on: read lines from position pos
\* until something is yielded, the lines run out (stop) or an exception
\* leaves the generator.
RECURSIVE Advance(_, _, _)
Advance(kind, lines, pos) ==
    IF pos >= Len(lines)
    THEN [pos |-> pos, act |-> "stop", text |-> "", err |-> ""]
    ELSE LET d == DecodeLine(kind, lines[pos + 1])
         IN IF d.act = "skip"
            THEN Advance(kind, lines, pos + 1)
            ELSE [pos |-> pos + 1, act |-> d.act, text |-> d.text, err |-> d.err]

\* The whole event sequence of one stream read to its end, and the exception
\* that ended it if one did: `async for` over the generator from line 1.
RECURSIVE CollectFrom(_, _, _, _)
CollectFrom(kind, lines, pos, events) ==
    LET a == Advance(kind, lines, pos)
    IN CASE a.act = "delta" -> CollectFrom(kind, lines, a.pos, Append(events, TextDelta(a.text)))
         [] a.act = "done" -> [events |-> Append(events, Done), err |-> ""]
         [] a.act = "raise" -> [events |-> events, err |-> a.err]
         [] OTHER -> [events |-> events, err |-> ""]

Collect(kind, lines) == CollectFrom(kind, lines, 0, <<>>)

\* ---------------------------------------------------------------- dispatcher
EmptyRegistry == [n \in {} |-> None]

RegisterKeepingFirst(registry, provider) ==
    IF provider = None \/ provider.name \in DOMAIN registry THEN registry
    ELSE [n \in DOMAIN registry \cup {provider.name} |->
            IF n = provider.name THEN provider ELSE registry[n]]

\* self._providers[provider.name] = provider, for the slots that are not None
Register(registry, provider) ==
    IF provider = None THEN registry
    ELSE [n \in DOMAIN registry \cup {provider.name} |->
            IF n = provider.name THEN provider ELSE registry[n]]

\* LLMClient.__init__(openai=..., anthropic=..., together=...)
LLMClientInit(openai, anthropic, together) ==
    Register(Register(Register(EmptyRegistry, openai), anthropic), together)

Lookup(error, provider) == [error |-> error, provider |-> provider]

get_provider_or_first(registry, name) ==
    IF name \in DOMAIN registry
    THEN Lookup(NoError, registry[name])
    ELSE IF DOMAIN registry # {}
    THEN Lookup(NoError, registry[CHOOSE n \in DOMAIN registry : TRUE])
    ELSE Lookup(UnsupportedProviderError(name), None)

\* LLMClient.get_provider
get_provider(registry, name) ==
    IF name \in DOMAIN registry
    THEN Lookup(NoError, registry[name])
    ELSE Lookup(UnsupportedProviderError(name), None)

\* What one dispatcher call leaves behind: the exception raised (or NoError),
\* the adapter resolved, the calls made on the way in their order, the
\* response returned, the outbound HTTP calls issued and the body sent.
Outcome(error, provider, trace, response, http, payload) ==
    [error |-> error, provider |-> provider, trace |-> trace,
     response |-> response, http |-> http, payload |-> payload]

ClientChatWrapping(registry, req, reply) ==
    LET found == get_provider(registry, req.provider)
        p == found.provider
        gate == ensure_capabilities(req, capabilities(p, req.model))
        r == ProviderChat(p, req, reply)
    IN IF found.error # NoError
       THEN Outcome(found.error, None, <<"get_provider">>, NoResponse, 0, NoPayload)
       ELSE IF gate # NoError
       THEN Outcome(gate, p, <<"get_provider", "capabilities", "ensure_capabilities">>,
                    NoResponse, 0, NoPayload)
       ELSE Outcome(IF r.error = NoError THEN NoError ELSE ProviderError(p.name, 0), p,
                    <<"get_provider", "capabilities", "ensure_capabilities", "provider.chat">>,
                    r.response, r.http, r.payload)

\* LLMClient.chat
ClientChat(registry, req, reply) ==
    LET found == get_provider(registry, req.provider)
        p == found.provider
        gate == ensure_capabilities(req, capabilities(p, req.model))
        r == ProviderChat(p, req, reply)
    IN IF found.error # NoError
       THEN Outcome(found.error, None, <<"get_provider">>, NoResponse, 0, NoPayload)
       ELSE IF gate # NoError
       THEN Outcome(gate, p, <<"get_provider", "capabilities", "ensure_capabilities">>,
                    NoResponse, 0, NoPayload)
       ELSE Outcome(r.error, p,
                    <<"get_provider", "capabilities", "ensure_capabilities", "provider.chat">>,
                    r.response, r.http, r.payload)

ClientStreamGateFirst(registry, req) ==
    LET found == get_provider(registry, req.provider)
        p == found.provider
        caps == capabilities(p, req.model)
        gate == ensure_capabilities(req, caps)
    IN IF found.error # NoError
       THEN Outcome(found.error, None, <<"get_provider">>, NoResponse, 0, NoPayload)
       ELSE IF gate # NoError
       THEN Outcome(gate, p, <<"get_provider", "capabilities", "ensure_capabilities">>,
                    NoResponse, 0, NoPayload)
       ELSE IF ~caps.streaming
       THEN Outcome(UnsupportedFeatureError("streaming"), p,
                    <<"get_provider", "capabilities", "ensure_capabilities">>,
                    NoResponse, 0, NoPayload)
       ELSE Outcome(ProviderStream(p, req), p,
                    <<"get_provider", "capabilities", "ensure_capabilities", "provider.stream">>,
                    NoResponse, 0, NoPayload)

\* LLMClient.stream, up to the return of the adapter's iterator
ClientStream(registry, req) ==
    LET found == get_provider(registry, req.provider)
        p == found.provider
        caps == capabilities(p, req.model)
        gate == ensure_capabilities(req, caps)
    IN IF found.error # NoError
       THEN Outcome(found.error, None, <<"get_provider">>, NoResponse, 0, NoPayload)
       ELSE IF ~caps.streaming
       THEN Outcome(UnsupportedFeatureError("streaming"), p,
                    <<"get_provider", "capabilities">>, NoResponse, 0, NoPayload)
       ELSE IF gate # NoError
       THEN Outcome(gate, p, <<"get_provider", "capabilities", "ensure_capabilities">>,
                    NoResponse, 0, NoPayload)
       ELSE Outcome(ProviderStream(p, req), p,
                    <<"get_provider", "capabilities", "ensure_capabilities", "provider.stream">>,
                    NoResponse, 0, NoPayload)

\* ------------------------------------------------------------ the generator
\* st: created (stream() returned it, nothing has run), open (suspended at a
\* yield inside `async with`), closed (returned or closed by the consumer),
\* failed (an exception left it).  pos counts the lines read, events the
\* events yielded so far.
NoGen == [st |-> "none", pos |-> 0, events |-> <<>>]

NewGen == [st |-> "created", pos |-> 0, events |-> <<>>]

DummyEvents == <<TextDelta("chunk"), Done>>

Resumed(g, error, calls) == [gen |-> g, error |-> error, calls |-> calls]

\* the loop over response.aiter_lines(), entered or re-entered at g.pos
ReadOn(p, g, w, calls) ==
    LET a == Advance(p.kind, w.lines, g.pos)
    IN CASE a.act = "delta" ->
              Resumed([st |-> "open", pos |-> a.pos,
                       events |-> Append(g.events, TextDelta(a.text))], NoError, calls)
         [] a.act = "done" ->
              Resumed([st |-> "open", pos |-> a.pos, events |-> Append(g.events, Done)],
                      NoError, calls)
         [] a.act = "raise" ->
              Resumed([g EXCEPT !.st = "failed", !.pos = a.pos], PythonError(a.err), calls)
         [] OTHER -> Resumed([g EXCEPT !.st = "closed", !.pos = a.pos], NoError, calls)

SseResumeReconnecting(p, g, w) ==
    IF g.st = "created"
    THEN IF ~w.transport
         THEN Resumed([g EXCEPT !.st = "failed"], PythonError("TransportError"), 1)
         ELSE IF w.status_code >= 400
         THEN Resumed([g EXCEPT !.st = "failed"], ProviderError(p.name, w.status_code), 1)
         ELSE ReadOn(p, g, w, 1)
    ELSE IF g.events # <<>> /\ g.events[Len(g.events)] = Done
    THEN Resumed([g EXCEPT !.st = "closed"], NoError, 0)
    ELSE ReadOn(p, g, w, 1)

\* One __anext__ on OpenAIProvider.stream._gen / TogetherProvider.stream._gen:
\* the first one builds the payload, opens the connection and checks the
\* status; a resumption after the done event runs the `return`.
SseResume(p, g, w) ==
    IF g.st = "created"
    THEN IF ~w.transport
         THEN Resumed([g EXCEPT !.st = "failed"], PythonError("TransportError"), 1)
         ELSE IF w.status_code >= 400
         THEN Resumed([g EXCEPT !.st = "failed"], ProviderError(p.name, w.status_code), 1)
         ELSE ReadOn(p, g, w, 1)
    ELSE IF g.events # <<>> /\ g.events[Len(g.events)] = Done
    THEN Resumed([g EXCEPT !.st = "closed"], NoError, 0)
    ELSE ReadOn(p, g, w, 0)

\* One __anext__ on the test provider's generator
DummyResume(g) ==
    IF Len(g.events) < Len(DummyEvents)
    THEN Resumed([g EXCEPT !.st = "open",
                           !.events = Append(g.events, DummyEvents[Len(g.events) + 1])],
                 NoError, 0)
    ELSE Resumed([g EXCEPT !.st = "closed"], NoError, 0)

Resume(p, g, w) == IF p.kind = "dummy" THEN DummyResume(g) ELSE SseResume(p, g, w)

\* --------------------------------------------------------------- the state
VARIABLES
    slots,      \* the constructor's arguments <<openai, anthropic, together>>
    providers,  \* LLMClient._providers
    pc,         \* idle | iterating | returned
    op,         \* the operation of the current invocation
    target,     \* the adapter it resolved or was called on
    req,        \* its request
    caps,       \* the capabilities it was given or returned
    result,     \* the exception it raised, NoError if none
    response,   \* the ChatResponse it returned
    trace,      \* the calls it made, in order
    http,       \* outbound HTTP calls issued by it so far
    sent,       \* the body of the outbound call
    reply,      \* the server's reply to the non-streaming call
    gen,        \* the iterator stream() returned
    wire        \* the server's reply to the streaming call

vars == <<slots, providers, pc, op, target, req, caps, result, response, trace, http, sent,
          reply, gen, wire>>

EmptyReq ==
    [provider |-> "", model |-> "", messages |-> <<>>, tools |-> <<>>,
     tool_mode |-> "off", thinking |-> "off"]

NoCaps == [tools |-> {}, streaming |-> FALSE, thinking |-> FALSE]

\* nothing in flight
Quiet ==
    /\ pc = "idle" /\ op = "" /\ target = None /\ req = EmptyReq /\ caps = NoCaps
    /\ result = NoError /\ response = NoResponse /\ trace = <<>> /\ http = 0
    /\ sent = NoPayload /\ reply = NoReply /\ gen = NoGen /\ wire = NoWire

OpenAISlot == {OpenAIProvider({}), DummyProvider}
AnthropicSlot == {None, AnthropicProvider({1}), OpenAIProvider({1})}
TogetherSlot == {None, TogetherProvider({}), TogetherProvider({1})}

Init ==
    /\ slots \in OpenAISlot \X AnthropicSlot \X TogetherSlot
    /\ providers = LLMClientInit(slots[1], slots[2], slots[3])
    /\ Quiet

\* ---- the dispatcher's four operations
Finish(o, name, r) ==
    /\ op' = name
    /\ req' = r
    /\ target' = o.provider
    /\ result' = o.error
    /\ response' = o.response
    /\ trace' = o.trace
    /\ http' = o.http
    /\ sent' = o.payload
    /\ UNCHANGED <<slots, providers, wire>>

GetProvider(name) ==
    /\ pc = "idle"
    /\ LET found == get_provider(providers, name)
       IN Finish(Outcome(found.error, found.provider, <<"get_provider">>,
                         NoResponse, 0, NoPayload),
                 "get_provider", [EmptyReq EXCEPT !.provider = name])
    /\ pc' = "returned"
    /\ UNCHANGED <<caps, reply, gen>>

Capabilities(name, model) ==
    /\ pc = "idle"
    /\ LET found == get_provider(providers, name)
       IN /\ Finish(Outcome(found.error, found.provider,
                            IF found.error = NoError
                            THEN <<"get_provider", "capabilities">> ELSE <<"get_provider">>,
                            NoResponse, 0, NoPayload),
                    "capabilities", [EmptyReq EXCEPT !.provider = name, !.model = model])
          /\ caps' = IF found.error = NoError THEN capabilities(found.provider, model)
                     ELSE NoCaps
    /\ pc' = "returned"
    /\ UNCHANGED <<reply, gen>>

Chat(r, rep) ==
    /\ pc = "idle"
    /\ LET o == ClientChat(providers, r, rep)
       IN /\ Finish(o, "chat", r)
          /\ reply' = IF o.http > 0 THEN rep ELSE NoReply
    /\ pc' = "returned"
    /\ UNCHANGED <<caps, gen>>

Stream(r) ==
    /\ pc = "idle"
    /\ LET o == ClientStream(providers, r)
       IN /\ Finish(o, "stream", r)
          /\ gen' = IF o.error = NoError THEN NewGen ELSE NoGen
          /\ pc' = IF o.error = NoError THEN "iterating" ELSE "returned"
    /\ UNCHANGED <<caps, reply>>

\* ---- the consumer of the iterator
\* `async for` asks for the next element
GenNext(w) ==
    /\ pc = "iterating"
    /\ gen.st \in {"created", "open"}
    /\ gen.st = "open" => w = wire
    /\ LET r == Resume(target, gen, w)
       IN /\ gen' = r.gen
          /\ result' = r.error
          /\ http' = http + r.calls
          /\ pc' = IF r.gen.st = "open" THEN "iterating" ELSE "returned"
    /\ wire' = IF target.kind = "dummy" THEN wire ELSE w
    /\ sent' = IF gen.st = "created" /\ target.kind # "dummy"
               THEN [BuildPayload(target, req) EXCEPT !.stream = TRUE]
               ELSE sent
    /\ UNCHANGED <<slots, providers, op, target, req, caps, response, trace, reply>>

\* the consumer drops the iterator (aclose): nothing more is read
GenAbandon ==
    /\ pc = "iterating"
    /\ gen' = [gen EXCEPT !.st = "closed"]
    /\ pc' = "returned"
    /\ UNCHANGED <<slots, providers, op, target, req, caps, result, response, trace, http,
                   sent, reply, wire>>

\* the caller is done with the invocation
Return ==
    /\ pc = "returned"
    /\ pc' = "idle" /\ op' = "" /\ target' = None /\ req' = EmptyReq /\ caps' = NoCaps
    /\ result' = NoError /\ response' = NoResponse /\ trace' = <<>> /\ http' = 0
    /\ sent' = NoPayload /\ reply' = NoReply /\ gen' = NoGen /\ wire' = NoWire
    /\ UNCHANGED <<slots, providers>>

\* the requests the dispatcher and the adapters are called with, and the
\* feeds their streams are answered with
CallRequests == Requests(MaxCallTools)

CallFeeds == StreamReplies(FewLines, MaxWireLines)

\* the feed a resumption reads from: any when the call is first made, the
\* one being received afterwards
FeedsNow == IF gen.st = "created" THEN CallFeeds ELSE {wire}

\* the caller's moves: each operation with every argument in the bounds
CallGetProvider == pc = "idle" /\ \E name \in ProviderNames : GetProvider(name)

CallCapabilities ==
    pc = "idle" /\ \E name \in ProviderNames, model \in Models : Capabilities(name, model)

CallChat == pc = "idle" /\ \E r \in CallRequests, rep \in Replies : Chat(r, rep)

CallStream == pc = "idle" /\ \E r \in CallRequests : Stream(r)

Pull == pc = "iterating" /\ \E w \in FeedsNow : GenNext(w)

Next ==
    \/ CallGetProvider
    \/ CallCapabilities
    \/ CallChat
    \/ CallStream
    \/ Pull
    \/ GenAbandon
    \/ Return

Spec == Init /\ [][Next]_vars

\* --------------------------------------------- an adapter called directly
\* provider.chat(req) / provider.stream(req) on an adapter of the caller's
\* making, with any allow-list (examples/smoke.py builds them this way).
Adapters ==
    {OpenAIProvider(t) : t \in SUBSET ToolNames}
        \cup {AnthropicProvider(t) : t \in SUBSET ToolNames}
        \cup {TogetherProvider(t) : t \in SUBSET ToolNames}
        \cup {DummyProvider}

InitAdapter ==
    /\ slots = <<None, None, None>>
    /\ providers = LLMClientInit(None, None, None)
    /\ pc = "idle" /\ op = ""
    /\ target \in Adapters
    /\ req \in {r \in CallRequests : r.provider = target.name}
    /\ caps = NoCaps
    /\ result = NoError /\ response = NoResponse /\ trace = <<>> /\ http = 0
    /\ sent = NoPayload /\ reply = NoReply /\ gen = NoGen /\ wire = NoWire

AdapterChat(rep) ==
    /\ pc = "idle"
    /\ LET r == ProviderChat(target, req, rep)
       IN /\ result' = r.error
          /\ response' = r.response
          /\ http' = r.http
          /\ sent' = r.payload
          /\ reply' = IF r.http > 0 THEN rep ELSE NoReply
    /\ op' = "provider.chat"
    /\ trace' = <<"provider.chat">>
    /\ pc' = "returned"
    /\ UNCHANGED <<slots, providers, target, req, caps, gen, wire>>

AdapterStream ==
    /\ pc = "idle"
    /\ LET e == ProviderStream(target, req)
       IN /\ result' = e
          /\ gen' = IF e = NoError THEN NewGen ELSE NoGen
          /\ pc' = IF e = NoError THEN "iterating" ELSE "returned"
    /\ op' = "provider.stream"
    /\ trace' = <<"provider.stream">>
    /\ UNCHANGED <<slots, providers, target, req, caps, response, http, sent, reply, wire>>

CallAdapterChat == pc = "idle" /\ \E rep \in Replies : AdapterChat(rep)

NextAdapter ==
    \/ CallAdapterChat
    \/ AdapterStream
    \/ Pull
    \/ GenAbandon

SpecAdapter == InitAdapter /\ [][NextAdapter]_vars

\* ------------------------------------------------- the SSE decoding alone
\* An OpenAI or Together stream just obtained, read to its end against a
\* feed of lines fixed beforehand (status 200, the transport never fails).
HiRequest(name) ==
    [provider |-> name, model |-> "toy",
     messages |-> <<[role |-> "user", content |-> "hi"]>>, tools |-> <<>>,
     tool_mode |-> "off", thinking |-> "off"]

InitSSE ==
    /\ slots = <<None, None, None>>
    /\ providers = LLMClientInit(None, None, None)
    /\ target \in {OpenAIProvider({}), TogetherProvider({})}
    /\ req = HiRequest(target.name)
    /\ pc = "iterating" /\ op = "provider.stream" /\ trace = <<"provider.stream">>
    /\ gen = NewGen
    /\ wire \in LineFeeds(Lines, MaxLines)
    /\ caps = NoCaps /\ result = NoError /\ response = NoResponse /\ http = 0
    /\ sent = NoPayload /\ reply = NoReply

\* the consumer asks for the next element; the feed is the one fixed above
PullFixed == pc = "iterating" /\ GenNext(wire)

NextSSE == PullFixed

SpecSSE == InitSSE /\ [][NextSSE]_vars

\* ------------------------------------------------- the gate called directly
\* ensure_capabilities(req, caps) on a request and capabilities of the
\* caller's choosing (tests/test_sanity.py calls it this way).
GateRequests == {r \in ChatRequest : r.provider = "dummy" /\ r.messages = <<>>}

InitGate ==
    /\ slots = <<None, None, None>>
    /\ providers = LLMClientInit(None, None, None)
    /\ pc = "idle" /\ op = "" /\ target = None
    /\ req \in GateRequests
    /\ caps \in ModelCapabilities
    /\ result = NoError /\ response = NoResponse /\ trace = <<>> /\ http = 0
    /\ sent = NoPayload /\ reply = NoReply /\ gen = NoGen /\ wire = NoWire

EnsureCapabilities ==
    /\ pc = "idle"
    /\ op' = "ensure_capabilities"
    /\ result' = ensure_capabilities(req, caps)
    /\ trace' = <<"ensure_capabilities">>
    /\ pc' = "returned"
    /\ UNCHANGED <<slots, providers, target, req, caps, response, http, sent, reply, gen,
                   wire>>

NextGate == EnsureCapabilities

SpecGate == InitGate /\ [][NextGate]_vars

\* ------------------------------------------------------------ claims: gate
GateReturned == pc = "returned" /\ op = "ensure_capabilities"

RequestedNames == {req.tools[i].name : i \in DOMAIN req.tools}

\* the request asks for tools that the capabilities do not grant
ToolsRejected ==
    /\ req.tool_mode \in {"auto", "required"}
    /\ req.tools # <<>>
    /\ \/ caps.tools = {}
       \/ Star \notin caps.tools /\ RequestedNames \ caps.tools # {}

StrictlyIncreasing(q) == \A i, j \in DOMAIN q : i < j => q[i] < q[j]

\* C1: ensure_capabilities raises ToolNotAvailable exactly when tool_mode is
\* auto or required, tools is non-empty and caps.tools is empty or lacks both
\* the wildcard and some requested name (so never when tool_mode is off); the
\* names it reports are the requested names absent from caps.tools, each
\* once, in sorted order.
C1_ToolNotAvailableIff ==
    GateReturned =>
        /\ (result.kind = "ToolNotAvailable") <=> ToolsRejected
        /\ req.tool_mode = "off" => result.kind # "ToolNotAvailable"
        /\ result.kind = "ToolNotAvailable" =>
              /\ Range(result.tools) = RequestedNames \ caps.tools
              /\ StrictlyIncreasing(result.tools)

\* a tool requested twice and one allowed tool: the error names the missing
\* one once
C1_Witness ==
    /\ GateReturned
    /\ result.kind = "ToolNotAvailable"
    /\ Len(req.tools) = 2 /\ req.tools[1] = req.tools[2]
    /\ caps.tools # {}
    /\ Len(result.tools) = 1

ThinkingError == UnsupportedFeatureError("thinking")

\* C2 as stated: with thinking=on the gate fails with
\* UnsupportedFeature("thinking") iff caps.thinking is false, whatever the
\* capabilities say about the request's tools; with thinking=off never.
C2_ThinkingIffAlways ==
    GateReturned =>
        /\ req.thinking = "on" => ((result = ThinkingError) <=> ~caps.thinking)
        /\ req.thinking = "off" => result # ThinkingError

\* C2 (amended): the rules run in order.  With thinking=on, a request whose
\* tools the capabilities reject fails with ToolNotAvailable, not with the
\* thinking error; one whose tools pass fails with
\* UnsupportedFeature("thinking") iff caps.thinking is false.  With
\* thinking=off the gate never fails with UnsupportedFeature("thinking").
C2_ThinkingAfterTools ==
    GateReturned =>
        /\ req.thinking = "on" /\ ToolsRejected => result.kind = "ToolNotAvailable"
        /\ req.thinking = "on" /\ ~ToolsRejected =>
              ((result = ThinkingError) <=> ~caps.thinking)
        /\ req.thinking = "off" => result # ThinkingError

\* thinking asked of capabilities that have neither thinking nor the tools
C2_Witness ==
    /\ GateReturned
    /\ req.thinking = "on" /\ ~caps.thinking /\ ToolsRejected
    /\ result.kind = "ToolNotAvailable"

\* ------------------------------------------------------ claims: dispatcher
Invoked(name) == pc # "idle" /\ op = name

Called(name) == name \in Range(trace)

StreamingError == UnsupportedFeatureError("streaming")

\* C3: when the resolved adapter's capabilities say streaming=false,
\* LLMClient.stream fails with UnsupportedFeature("streaming") and has run
\* neither the gate nor the adapter's stream, whatever the gate would have
\* said about the request.
C3_StreamingCheckedFirst ==
    Invoked("stream") /\ target # None /\ ~capabilities(target, req.model).streaming =>
        /\ result = StreamingError
        /\ ~Called("ensure_capabilities")
        /\ ~Called("provider.stream")
        /\ gen = NoGen
        /\ http = 0

\* a non-streaming adapter asked to stream a request whose tool it lacks
C3_Witness ==
    /\ Invoked("stream") /\ target.kind = "anthropic"
    /\ ensure_capabilities(req, capabilities(target, req.model)).kind = "ToolNotAvailable"
    /\ result = StreamingError

DispatcherOps == {"get_provider", "capabilities", "chat", "stream"}

\* C4: for a name that is no key of the registry, get_provider, capabilities,
\* chat and stream fail with UnsupportedProvider, call nothing on any
\* adapter, and leave the registry as the constructor built it.
C4_UnknownProvider ==
    pc # "idle" /\ op \in DispatcherOps /\ req.provider \notin DOMAIN providers =>
        /\ result = UnsupportedProviderError(req.provider)
        /\ trace = <<"get_provider">>
        /\ target = None
        /\ caps = NoCaps /\ response = NoResponse /\ gen = NoGen /\ http = 0
        /\ providers = LLMClientInit(slots[1], slots[2], slots[3])

\* chat on the slot name "anthropic" while that slot is empty
C4_Witness ==
    /\ Invoked("chat") /\ req.provider = "anthropic"
    /\ "anthropic" \notin DOMAIN providers /\ DOMAIN providers # {}
    /\ result.kind = "UnsupportedProvider"

ValidationKinds == {"UnsupportedProvider", "UnsupportedFeature", "ToolNotAvailable"}

\* C8: a chat or stream of the dispatcher that fails with UnsupportedProvider,
\* UnsupportedFeature or ToolNotAvailable issued no outbound call and never
\* started the adapter's chat/stream; one that fails with ProviderError
\* issued its call and got an error status back.
C8_FailFast ==
    pc # "idle" /\ op \in {"chat", "stream"} =>
        /\ result.kind \in ValidationKinds =>
              /\ http = 0
              /\ ~Called("provider.chat") /\ ~Called("provider.stream")
              /\ gen = NoGen /\ sent = NoPayload
        /\ result.kind = "ProviderError" =>
              /\ http = 1
              /\ result.status >= 400
              /\ op = "chat" => reply.transport /\ reply.status_code = result.status
              /\ op = "stream" => wire.transport /\ wire.status_code = result.status

\* a chat with a system message, sent by the Anthropic adapter and refused by
\* the server
C8_Witness ==
    /\ Invoked("chat") /\ target.kind = "anthropic"
    /\ \E i \in DOMAIN req.messages : req.messages[i].role = "system"
    /\ result.kind = "ProviderError" /\ http = 1

\* -------------------------------------------------------- claims: adapters
\* C9: AnthropicProvider.stream fails with UnsupportedFeature("streaming")
\* on every invocation, for every request and allow-list, without an
\* outbound call.
C9_AnthropicStreamUnsupported ==
    Invoked("provider.stream") /\ target.kind = "anthropic" =>
        result = StreamingError /\ http = 0

VendorKinds == {"openai", "anthropic", "together"}

\* C10: an adapter's chat that got a reply with a non-success status, or a
\* success status with a body that is not JSON, fails with ProviderError
\* carrying the backend and the status, and returns no ChatResponse.
C10_BadReplyIsProviderError ==
    Invoked("provider.chat") /\ target.kind \in VendorKinds /\ http = 1
        /\ reply.transport /\ (reply.status_code >= 400 \/ reply.json = "invalid") =>
        /\ result = ProviderError(target.kind, reply.status_code)
        /\ response = NoResponse

\* ------------------------------------------------------ claims: SSE streams
\* the stream has been read to its end
StreamOver == Invoked("provider.stream") /\ pc = "returned" /\ wire.lines \in Seq(Lines)

IsDataLine(line) == StartsWith(Strip(line), "data:")

Payload(line) == Strip(Tail(Strip(line)))

IsDoneLine(line) == IsDataLine(line) /\ Payload(line) = <<Tok("[DONE]")>>

HasDone(lines) == \E i \in DOMAIN lines : IsDoneLine(lines[i])

\* index of the first [DONE] line, Len + 1 if there is none
FirstDone(lines) ==
    IF HasDone(lines)
    THEN CHOOSE i \in DOMAIN lines :
            IsDoneLine(lines[i]) /\ \A j \in 1..(i - 1) : ~IsDoneLine(lines[j])
    ELSE Len(lines) + 1

CountDone(events) == Cardinality({i \in DOMAIN events : events[i] = Done})

\* C5: a stream of the OpenAI or Together adapter whose transport does not
\* fail yields, for every finite feed of lines, a finite event sequence with
\* exactly one Done, as its last element.
C5_ExactlyOneDoneLast ==
    StreamOver /\ gen.st = "closed" =>
        /\ gen.events # <<>>
        /\ gen.events[Len(gen.events)] = Done
        /\ CountDone(gen.events) = 1

\* the string fragment a payload carries at the vendor's location
\* (choices[0].delta.content, for Together else choices[0].message.content),
\* "" if it carries none
FragmentOf(kind, line) ==
    LET c == JsonLoads(Payload(line)).value
    IN IF ~IsDataLine(line) \/ ~JsonLoads(Payload(line)).ok THEN ""
       ELSE IF c.top # "object" \/ c.choices # "list" \/ c.c0 # "object" THEN ""
       ELSE IF c.delta = "object" /\ c.dcontent.t = "str" THEN c.dcontent.s
       ELSE IF kind = "together" /\ c.message = "object" /\ c.mcontent.t = "str"
            THEN c.mcontent.s
       ELSE ""

RECURSIVE DeltasOf(_, _)
DeltasOf(kind, lines) ==
    IF lines = <<>> THEN <<>>
    ELSE IF FragmentOf(kind, Head(lines)) # ""
         THEN <<TextDelta(FragmentOf(kind, Head(lines)))>> \o DeltasOf(kind, Tail(lines))
         ELSE DeltasOf(kind, Tail(lines))

ExpectedEvents(kind, lines) ==
    DeltasOf(kind, SubSeq(lines, 1, FirstDone(lines) - 1))
        \o (IF HasDone(lines) THEN <<Done>> ELSE <<>>)

\* C6: for every feed of lines the events are, in line order, one TextDelta
\* per data: line before the first [DONE] whose chunk carries a non-empty
\* string fragment, then Done at the first [DONE]; every other line emits
\* nothing and no line after the first [DONE] is read.
C6_EventsAreTheFragments ==
    StreamOver =>
        /\ gen.events = ExpectedEvents(target.kind, wire.lines)
        /\ gen.pos <= FirstDone(wire.lines)

\* a data: line whose payload is not the JSON chunk object: not JSON at all,
\* or JSON of another type
Malformed(line) ==
    /\ IsDataLine(line)
    /\ ~IsDoneLine(line)
    /\ \/ ~JsonLoads(Payload(line)).ok
       \/ JsonLoads(Payload(line)).value.top # "object"

Without(lines, i) == SubSeq(lines, 1, i - 1) \o SubSeq(lines, i + 1, Len(lines))

StreamError == IF result = NoError THEN "" ELSE result.kind

\* C7: a malformed data: line anywhere before the [DONE] line changes
\* nothing: the stream yields the events it yields without that line, and
\* does not fail.
C7_MalformedLineIsSkipped ==
    StreamOver =>
        \A i \in DOMAIN wire.lines :
            Malformed(wire.lines[i]) /\ HasDone(wire.lines) /\ i < FirstDone(wire.lines) =>
                /\ gen.events = Collect(target.kind, Without(wire.lines, i)).events
                /\ StreamError = Collect(target.kind, Without(wire.lines, i)).err
                /\ result = NoError

\* Every line of the feed either is no data: line, or is [DONE], or fails to
\* parse, or parses to an object whose choices (if any) hold objects with
\* an object (or no) delta and message: nothing _extract_delta_text trips on.
NothingRaises ==
    \A i \in DOMAIN wire.lines :
        DecodeLine(target.kind, wire.lines[i]).act # "raise"

\* What the decoding does do: on feeds none of whose
\* chunks trips _extract_delta_text the events are exactly those C6 names,
\* Done is yielded iff a [DONE] line was read, and the step-by-step reading
\* agrees with Collect.
SseDecodingOnWellShapedFeeds ==
    StreamOver =>
        /\ gen.events = Collect(target.kind, wire.lines).events
        /\ StreamError = Collect(target.kind, wire.lines).err
        /\ gen.pos <= FirstDone(wire.lines)
        /\ NothingRaises =>
              /\ gen.events = ExpectedEvents(target.kind, wire.lines)
              /\ result = NoError
              /\ CountDone(gen.events) = (IF HasDone(wire.lines) THEN 1 ELSE 0)

\* ------------------------------------------------- claims: the body sent
\* the request asks for tools
WantsTools == req.tool_mode \in {"auto", "required"} /\ req.tools # <<>>

\* the body on the wire declares every tool of the request and carries a
\* tool-choice directive
DeclaresTools ==
    /\ \A i \in DOMAIN req.tools : \E j \in DOMAIN sent.tools : sent.tools[j] = req.tools[i].name
    /\ sent.tool_choice # NoChoice

\* C11: a chat or stream of the dispatcher whose request asks for tools
\* (tool_mode auto or required, tools non-empty) and has passed the gate
\* sends a body that declares every requested tool and carries a
\* tool-choice directive.
C11_NoSilentDowngrade ==
    pc # "idle" /\ op \in {"chat", "stream"} /\ http >= 1 /\ WantsTools => DeclaresTools

\* ------------------------------------------------- claims: pass-through
IsPrefix(s, t) == Len(s) <= Len(t) /\ SubSeq(t, 1, Len(s)) = s

\* the request names a registered adapter and passes the gate of chat
PassesChat ==
    /\ req.provider \in DOMAIN providers
    /\ ensure_capabilities(req, capabilities(providers[req.provider], req.model)) = NoError

\* ... and the streaming check of stream as well
PassesStream ==
    PassesChat /\ capabilities(providers[req.provider], req.model).streaming

\* what the adapter's own stream yields against a reply of the server, read
\* from the first element to the end, and the exception that ends it
AdapterEvents(p, w) ==
    IF p.kind = "dummy" THEN DummyEvents
    ELSE IF ~w.transport \/ w.status_code >= 400 THEN <<>>
    ELSE Collect(p.kind, w.lines).events

AdapterFailure(p, w) ==
    IF p.kind = "dummy" THEN NoError
    ELSE IF ~w.transport THEN PythonError("TransportError")
    ELSE IF w.status_code >= 400 THEN ProviderError(p.name, w.status_code)
    ELSE IF Collect(p.kind, w.lines).err # "" THEN PythonError(Collect(p.kind, w.lines).err)
    ELSE NoError

\* the consumer has taken everything the iterator had
ReadToEnd ==
    /\ gen.st \in {"closed", "failed"}
    /\ \/ gen.st = "failed"
       \/ gen.events # <<>> /\ gen.events[Len(gen.events)] = Done
       \/ target.kind # "dummy" /\ wire # NoWire /\ gen.pos = Len(wire.lines)

\* C12: for a request whose backend is registered and which passes the
\* streaming check and the gate, chat returns the ChatResponse of the
\* adapter's chat and raises what it raised; stream hands out the adapter's
\* events in their order, nothing added, dropped or reordered, and a failure
\* of the adapter reaches the caller as the same error.
C12_PassThrough ==
    /\ Invoked("chat") /\ PassesChat =>
          LET a == ProviderChat(providers[req.provider], req, reply)
          IN /\ target = providers[req.provider]
             /\ response = a.response
             /\ result = a.error
    /\ Invoked("stream") /\ PassesStream =>
          LET p == providers[req.provider]
          IN /\ target = p
             /\ gen # NoGen
             /\ IsPrefix(gen.events, AdapterEvents(p, wire))
             /\ ReadToEnd => gen.events = AdapterEvents(p, wire)
             /\ result = IF gen.st = "failed" THEN AdapterFailure(p, wire) ELSE NoError

\* a vendor adapter's response handed on by chat
C12_Witness ==
    /\ Invoked("chat") /\ PassesChat /\ target.kind \in VendorKinds
    /\ response = ChatResponse(target.name, req.model, "ok") /\ http = 1

\* ------------------------------------------------ claims: outbound calls
\* an adapter's chat or stream that was not refused by validation
AdapterInvoked ==
    /\ pc # "idle" /\ op \in {"provider.chat", "provider.stream"}
    /\ target.kind \in VendorKinds
    /\ result.kind \notin ValidationKinds

\* the consumer has asked the iterator for an element at least once
Pulled == gen.st \in {"open", "failed"} \/ wire # NoWire

\* C13 as stated: every chat and every stream of an adapter that gets past
\* validation has issued exactly one outbound call when it is over, whatever
\* the consumer of the stream did, and never more than one at any moment.
C13_ExactlyOneCall ==
    AdapterInvoked =>
        /\ http <= 1
        /\ pc = "returned" => http = 1

\* C13, amended: such a chat issues exactly one outbound call; such a stream
\* issues none until the consumer asks for the first element and exactly
\* one from then on, however the consumer goes on (reads to the end, drops
\* the iterator after the first event) and however the call ends
\* (ProviderError, transport failure): there is never a second call.
C13_OneCallOncePulled ==
    AdapterInvoked =>
        /\ http <= 1
        /\ op = "provider.chat" => http = 1
        /\ op = "provider.stream" => http = IF Pulled THEN 1 ELSE 0

\* a stream dropped after its first event, its one call made
C13_Witness ==
    /\ AdapterInvoked /\ op = "provider.stream" /\ pc = "returned"
    /\ gen.st = "closed" /\ gen.events = <<TextDelta("He")>> /\ http = 1

\* -------------------------------------------------- claims: the registry
\* the constructor's keyword arguments, in the order they are registered
SlotNames == <<"openai", "anthropic", "together">>

\* the slots that hold an adapter whose name attribute is n
SlotsNamed(n) == {i \in DOMAIN slots : slots[i] # None /\ slots[i].name = n}

\* the last of them
LastNamed(n) == slots[CHOOSE i \in SlotsNamed(n) : \A j \in SlotsNamed(n) : j <= i]

\* At every moment the registry holds, under each name carried by some
\* slot's adapter, the adapter of the last such slot, and nothing else; so
\* get_provider(n) returns A exactly when A is that adapter, and no call
\* has added, removed or replaced an entry.
RegistryKeyedByName ==
    /\ DOMAIN providers = {n \in ProviderNames : SlotsNamed(n) # {}}
    /\ \A n \in ProviderNames :
          get_provider(providers, n) =
              IF SlotsNamed(n) # {} THEN Lookup(NoError, LastNamed(n))
              ELSE Lookup(UnsupportedProviderError(n), None)

\* the request names slot i, which holds an adapter of another name
NamesForeignSlot(i) ==
    /\ pc # "idle" /\ op \in DispatcherOps
    /\ req.provider = SlotNames[i]
    /\ slots[i] # None /\ slots[i].name # SlotNames[i]

\* C14 as stated: the registry is keyed by the adapters' names (see
\* RegistryKeyedByName), and every request naming a slot whose adapter
\* carries a different name fails with UnsupportedProvider.
C14_ForeignSlotAlwaysFails ==
    /\ RegistryKeyedByName
    /\ \A i \in DOMAIN slots :
          NamesForeignSlot(i) => result = UnsupportedProviderError(req.provider)

\* C14, amended: the registry is keyed by the adapters' names, last slot
\* first, and never changes; a request naming a slot whose adapter carries
\* a different name fails with UnsupportedProvider unless some slot holds an
\* adapter of the requested name, and is then served by the last such
\* adapter like any other request.
C14_RegistryKeyedByName ==
    /\ RegistryKeyedByName
    /\ \A i \in DOMAIN slots :
          NamesForeignSlot(i) =>
              IF SlotsNamed(req.provider) = {}
              THEN result = UnsupportedProviderError(req.provider) /\ target = None
              ELSE result.kind # "UnsupportedProvider" /\ target = LastNamed(req.provider)

\* two slots hold adapters named "openai"; get_provider("openai") has
\* returned the one of the later slot
C14_Witness ==
    /\ Invoked("get_provider") /\ req.provider = "openai"
    /\ SlotsNamed("openai") = {1, 2} /\ slots[1] # slots[2]
    /\ target = slots[2] /\ result = NoError
====
